---- MODULE Spec2Model ----
(***************************************************************************)
(* Model of the pf-web3-cosmos ledger: Block, Transaction, Blockchain      *)
(* (src/src/blockchain/block.js) and the P2PNode message handlers          *)
(* (src/unnamed/part_002).  The handlers name Block, Transaction and       *)
(* Blockchain, which their file does not import; the model binds these     *)
(* names to the classes of block.js, as the handlers intend.               *)
(*                                                                         *)
(* Digests.  SHA-256 cannot be evaluated here, so a digest is a sequence   *)
(* of naturals made of two parts: HashLen pseudo-random "hex" digits (the  *)
(* part the proof-of-work prefix test looks at, radix HexBase), followed   *)
(* by the hashed content itself.  The second part                          *)
(* makes distinct contents hash to distinct digests (collision             *)
(* resistance); the first part makes the leading-zero test depend on every *)
(* hashed field, the nonce included.  Literal digests of the source        *)
(* ('0'.repeat(64), '0' + '1'.repeat(63)) are digit strings without a      *)
(* content part.                                                           *)
(***************************************************************************)
EXTENDS Integers, Sequences, FiniteSets, TLC

(* ------------------------------ bounds --------------------------------- *)
HashLen == 3          \* digits of a digest that the prefix test can see
HexBase == 4          \* radix of a digest digit
MaxAttempts == 8      \* nonce-search budget of mineBlock, scaled to HexBase^HashLen
MaxChain == 3         \* blocks the local chain may hold (genesis included)
MaxPending == 1       \* transactions the mempool may hold
MaxIds == 3           \* uuids the node may draw
MaxTime == 3          \* last value of the wall clock
MaxMsgs == 1          \* chains and blocks that peers may offer
MaxTimers == 2        \* interval timers the event loop may hold
MaxSaves == 1         \* calls of saveBlockchain that may be in progress

(* --------------------------- program constants ------------------------- *)
GenesisDifficulty == 1
DefaultDifficulty == 2
miningReward == 50

NULL == "null"
Deltas == {0, 3}              \* milliseconds that pass before a clock read

(* ------------------------------ digests -------------------------------- *)
HashMod == HexBase ^ HashLen

RECURSIVE ToDigits(_, _)
ToDigits(n, len) ==
  IF len = 0 THEN <<>>
  ELSE Append(ToDigits(n \div HexBase, len - 1), n % HexBase)

RECURSIVE ToNum(_, _)
\* the number written by the first len digits of h
ToNum(h, len) ==
  IF len = 0 THEN 0 ELSE ToNum(h, len - 1) * HexBase + h[len]

RECURSIVE Fold(_, _)
Fold(s, i) ==
  IF i > Len(s) THEN 0
  ELSE (s[i] + 3 * Fold(s, i + 1) + 1) % HashMod

\* sha256(content).toString('hex') of utils/crypto.js, for a content made
\* of the numbers nums and the digests parts.  sha256 comes from
\* @cosmjs/crypto, which is not among the sources: its result is taken to
\* be rendered as a string of digits, each of which may be a zero
Digest(nums, parts) ==
  LET seed == nums \o [i \in 1..Len(parts) |-> ToNum(parts[i], HashLen)]
  IN  Append(ToDigits(Fold(seed, 1), HashLen), [nums |-> nums, parts |-> parts])

ZeroHash == [i \in 1..HashLen |-> 0]                     \* '0'.repeat(64)
ForcedHash == [i \in 1..HashLen |-> IF i = 1 THEN 0 ELSE 1]  \* '0' + '1'.repeat(63)

\* '0'.repeat(d)
Target(d) == [i \in 1..d |-> 0]

\* h.substring(0, d): the first d digits, fewer when h has fewer
Substring(h, d) == SubSeq(h, 1, IF d < HashLen THEN d ELSE HashLen)

MeetsDifficulty(h, d) == Substring(h, d) = Target(d)

(* ---------------------------- Transaction ------------------------------ *)
Transaction(id, fromAddress, toAddress, amount, timestamp, type) ==
  [id |-> id, fromAddress |-> fromAddress, toAddress |-> toAddress,
   amount |-> amount, timestamp |-> timestamp, type |-> type,
   signature |-> NULL]

(* ------------------------------- Block --------------------------------- *)
\* SHA256(tx.id) leaves, pairwise reduction, an odd last node is carried up
LeafHash(id) == Digest(<<1, id>>, <<>>)

PairHash(a, b) == Digest(<<2>>, <<a, b>>)

RECURSIVE MerkleLayer(_)
MerkleLayer(nodes) ==
  IF Len(nodes) = 0 THEN <<>>
  ELSE IF Len(nodes) = 1 THEN nodes
  ELSE <<PairHash(nodes[1], nodes[2])>> \o MerkleLayer(SubSeq(nodes, 3, Len(nodes)))

RECURSIVE MerkleReduce(_)
MerkleReduce(nodes) ==
  IF Len(nodes) = 1 THEN nodes[1] ELSE MerkleReduce(MerkleLayer(nodes))

calculateMerkleRoot(transactions) ==
  IF Len(transactions) = 0 THEN ZeroHash
  ELSE MerkleReduce([i \in 1..Len(transactions) |-> LeafHash(transactions[i].id)])

calculateHash(b) ==
  Digest(<<3, b.index, b.timestamp, b.nonce, b.difficulty>>,
         <<b.previousHash, b.merkleRoot>>)

\* new Block(index, previousHash, transactions, difficulty) at clock value ts
Block(index, previousHash, transactions, difficulty, ts) ==
  LET b0 == [index |-> index, timestamp |-> ts, previousHash |-> previousHash,
             transactions |-> transactions, difficulty |-> difficulty,
             nonce |-> 0, merkleRoot |-> calculateMerkleRoot(transactions),
             hash |-> <<>>]
      b1 == [b0 EXCEPT !.hash = calculateHash(b0)]
  IN  IF index = 0 THEN [b1 EXCEPT !.hash = ForcedHash] ELSE b1

\* Transaction.toJSON
TransactionToJSON(tx) ==
  [id |-> tx.id, fromAddress |-> tx.fromAddress, toAddress |-> tx.toAddress,
   amount |-> tx.amount, timestamp |-> tx.timestamp, type |-> tx.type,
   signature |-> tx.signature]

\* Block.toJSON
BlockToJSON(b) ==
  [index |-> b.index, timestamp |-> b.timestamp, previousHash |-> b.previousHash,
   hash |-> b.hash, nonce |-> b.nonce, difficulty |-> b.difficulty,
   merkleRoot |-> b.merkleRoot,
   transactions |-> [i \in 1..Len(b.transactions) |->
                       TransactionToJSON(b.transactions[i])]]

\* TransactionFromJSON without the assignment of the timestamp
TransactionFromJSONNewTimestamp(data, uuid, ts) ==
  LET transaction == Transaction(uuid, data.fromAddress, data.toAddress,
                                 data.amount, ts, data.type)
  IN  [transaction EXCEPT !.id = data.id, !.signature = data.signature]

\* Transaction.fromJSON(data) at clock value ts, the constructor drawing uuid
TransactionFromJSON(data, uuid, ts) ==
  LET transaction == Transaction(uuid, data.fromAddress, data.toAddress,
                                 data.amount, ts, data.type)
  IN  [transaction EXCEPT !.id = data.id, !.timestamp = data.timestamp,
                          !.signature = data.signature]

\* Block.fromJSON(data, txData => Transaction.fromJSON(txData))
BlockFromJSON(data, uuid, ts) ==
  LET block == Block(data.index, data.previousHash,
                     [i \in 1..Len(data.transactions) |->
                        TransactionFromJSON(data.transactions[i], uuid, ts)],
                     data.difficulty, ts)
  IN  [block EXCEPT !.timestamp = data.timestamp, !.nonce = data.nonce,
                    !.hash = data.hash, !.merkleRoot = data.merkleRoot]

\* the while loop of mineBlock; yields the block and the attempts left
RECURSIVE MineLoop(_, _)
MineLoop(b, maxAttempts) ==
  IF ~MeetsDifficulty(b.hash, b.difficulty) /\ maxAttempts > 0
  THEN LET b1 == [b EXCEPT !.nonce = @ + 1]
       IN  MineLoop([b1 EXCEPT !.hash = calculateHash(b1)], maxAttempts - 1)
  ELSE [block |-> b, maxAttempts |-> maxAttempts]

\* TRUE when the search of mineBlock ends with its budget used up
MiningExhausted(b) ==
  b.index # 0 /\ MineLoop(b, MaxAttempts).maxAttempts <= 0

mineBlock(b) ==
  IF b.index = 0 THEN b
  ELSE LET r == MineLoop(b, MaxAttempts)
       IN  IF r.maxAttempts <= 0
           THEN [r.block EXCEPT !.hash = ForcedHash]
           ELSE r.block

\* isValid without its check of the Merkle root
isValidHashOnly(b) ==
  IF ~MeetsDifficulty(b.hash, b.difficulty) THEN FALSE
  ELSE IF b.hash # calculateHash(b) THEN FALSE
  ELSE TRUE

isValid(b) ==
  IF ~MeetsDifficulty(b.hash, b.difficulty) THEN FALSE
  ELSE IF b.hash # calculateHash(b) THEN FALSE
  ELSE IF b.merkleRoot # calculateMerkleRoot(b.transactions) THEN FALSE
  ELSE TRUE

(* ----------------------------- Blockchain ------------------------------ *)
VARIABLES
  chain,                \* Blockchain.chain
  pendingTransactions,  \* Blockchain.pendingTransactions
  difficulty,           \* Blockchain.difficulty
  now,                  \* the wall clock read by Date.now()
  nextId,               \* uuids drawn so far
  offered,              \* chains and blocks peers have offered so far
  stored,               \* the LevelDB database of BlockchainStorage
  node,                 \* Node.minerAddress, Node.isMining, Node.miningInterval
  timers,               \* the interval timers of the event loop that are live
  saving,               \* the calls of saveBlockchain in progress: the index
                        \* of the block each of them writes next
  seen,                 \* what chain, mempool and difficulty have been since
                        \* the oldest save in progress began
  lastOp                \* the last call: name, result, the chain it was given,
                        \* console message, events emitted, messages
                        \* broadcast, value returned

vars ==
  <<chain, pendingTransactions, difficulty, now, nextId, offered, stored, node,
    timers, saving, seen, lastOp>>

createGenesisBlock(ts) == Block(0, ZeroHash, <<>>, GenesisDifficulty, ts)

getLatestBlock == chain[Len(chain)]

Op(name, ok, arg, log, events, sent) ==
  [op |-> name, ok |-> ok, arg |-> arg, log |-> log, events |-> events,
   sent |-> sent, ret |-> NULL]

\* the outcome o of a call that returns the value ret
Returning(o, ret) == [o EXCEPT !.ret = ret]

\* a database without any key; keys holds the keys that have a value, the
\* block_i apart, which are the positions of blocks
EmptyDb ==
  [keys |-> {},
   metadata |-> [difficulty |-> 0, miningReward |-> 0, chainLength |-> 0],
   blocks |-> <<>>,
   pendingTransactions |-> <<>>]

Init ==
  /\ chain = <<createGenesisBlock(0)>>
  /\ difficulty \in {GenesisDifficulty, DefaultDifficulty}
  /\ pendingTransactions = <<>>
  /\ now = 0
  /\ nextId = 0
  /\ offered = 0
  /\ stored = EmptyDb
  /\ node = [minerAddress |-> NULL, isMining |-> FALSE, miningInterval |-> NULL]
  /\ timers = {}
  /\ saving = <<>>
  /\ seen = {}
  /\ lastOp = Op("new", TRUE, <<>>, "", <<>>, <<>>)

RECURSIVE SumAmountsCreditsOnly(_, _, _)
\* SumAmounts without the debit of the sender
SumAmountsCreditsOnly(txs, address, balance) ==
  IF txs = <<>> THEN balance
  ELSE LET tx == Head(txs)
       IN  SumAmountsCreditsOnly(Tail(txs), address,
             IF tx.toAddress = address THEN balance + tx.amount ELSE balance)

RECURSIVE SumAmounts(_, _, _)
\* the inner loop of getBalanceOfAddress over one block's transactions
SumAmounts(txs, address, balance) ==
  IF txs = <<>> THEN balance
  ELSE LET tx == Head(txs)
           b1 == IF tx.toAddress = address THEN balance + tx.amount ELSE balance
           b2 == IF tx.fromAddress = address THEN b1 - tx.amount ELSE b1
       IN  SumAmounts(Tail(txs), address, b2)

RECURSIVE BalanceOver(_, _, _)
BalanceOver(blocks, address, balance) ==
  IF blocks = <<>> THEN balance
  ELSE BalanceOver(Tail(blocks), address,
                   SumAmounts(Head(blocks).transactions, address, balance))

getBalanceOfAddress(address) == BalanceOver(chain, address, 0)

\* addTransactionError without the test of the amount
addTransactionErrorAnyAmount(tx) ==
  IF tx.fromAddress = NULL /\ tx.type # "reward" THEN "no sender"
  ELSE IF tx.toAddress = NULL THEN "no recipient"
  ELSE IF tx.fromAddress # NULL /\ tx.type # "reward"
          /\ getBalanceOfAddress(tx.fromAddress) < tx.amount THEN "insufficient balance"
  ELSE ""

\* the error addTransaction throws for tx, "" when it throws none
addTransactionError(tx) ==
  IF tx.fromAddress = NULL /\ tx.type # "reward" THEN "no sender"
  ELSE IF tx.toAddress = NULL THEN "no recipient"
  ELSE IF tx.amount <= 0 THEN "amount not positive"
  ELSE IF tx.fromAddress # NULL /\ tx.type # "reward"
          /\ getBalanceOfAddress(tx.fromAddress) < tx.amount THEN "insufficient balance"
  ELSE ""

\* transactions a caller may submit; the uuid is drawn by the constructor
TxInputs ==
  { Transaction(nextId, "A", t, a, 0, "regular") : t \in {"B", NULL}, a \in {0, 30} }
    \cup { Transaction(nextId, NULL, "B", 30, 0, ty) : ty \in {"regular", "reward"} }

\* addTransaction without the emit and with the index of the tip returned
addTransactionSilent(tx) ==
  /\ IF addTransactionError(tx) # ""
     THEN /\ lastOp' = Op("addTransaction", FALSE, <<>>, "", <<>>, <<>>)
          /\ UNCHANGED <<chain, pendingTransactions, difficulty, now, nextId, offered, stored, node, timers, saving>>
     ELSE /\ pendingTransactions' = Append(pendingTransactions, tx)
          /\ nextId' = IF tx.id = nextId THEN nextId + 1 ELSE nextId
          /\ lastOp' = Returning(Op("addTransaction", TRUE, <<>>, "", <<>>, <<>>),
                                  getLatestBlock.index)
          /\ UNCHANGED <<chain, difficulty, now, offered, stored, node, timers, saving>>

\* a uuid is used up when the transaction that drew it is admitted
addTransaction(tx) ==
  /\ IF addTransactionError(tx) # ""
     THEN /\ lastOp' = Op("addTransaction", FALSE, <<>>, "", <<>>, <<>>)
          /\ UNCHANGED <<chain, pendingTransactions, difficulty, now, nextId, offered, stored, node, timers, saving>>
     ELSE /\ pendingTransactions' = Append(pendingTransactions, tx)
          /\ nextId' = IF tx.id = nextId THEN nextId + 1 ELSE nextId
          /\ lastOp' = Returning(Op("addTransaction", TRUE, <<>>, "",
                                     <<"transactionAdded">>, <<"NEW_TRANSACTION">>),
                                  getLatestBlock.index + 1)
          /\ UNCHANGED <<chain, difficulty, now, offered, stored, node, timers, saving>>

\* the block minePendingTransactions builds from the mempool pending, its
\* reward transaction drawing uuid, before it searches for a nonce
\* CandidateOf with the reward transaction put before the pending ones
CandidateOfRewardFirst(pending, uuid, miningRewardAddress, ts) ==
  LET rewardTx == Transaction(uuid, NULL, miningRewardAddress, miningReward, ts, "reward")
  IN  Block(getLatestBlock.index + 1, getLatestBlock.hash,
            <<rewardTx>> \o pending, difficulty, ts)

CandidateOf(pending, uuid, miningRewardAddress, ts) ==
  LET rewardTx == Transaction(uuid, NULL, miningRewardAddress, miningReward,
                              ts, "reward")
  IN  Block(getLatestBlock.index + 1, getLatestBlock.hash,
            Append(pending, rewardTx), difficulty, ts)

CandidateBlock(miningRewardAddress, ts) ==
  CandidateOf(pendingTransactions, nextId, miningRewardAddress, ts)

minePendingTransactions(miningRewardAddress, dt) ==
  /\ nextId < MaxIds
  /\ Len(chain) < MaxChain
  /\ now + dt <= MaxTime
  /\ LET candidate == CandidateBlock(miningRewardAddress, now + dt)
         block == mineBlock(candidate)
     IN  /\ chain' = Append(chain, block)
         /\ pendingTransactions' = <<>>
         /\ lastOp' = Returning(
                         Op("minePendingTransactions", TRUE, <<>>,
                            IF MiningExhausted(candidate) THEN "timeout" ELSE "mined",
                            <<"blockMined">>, <<"NEW_BLOCK">>),
                         block)
  /\ now' = now + dt
  /\ nextId' = nextId + 1
  /\ UNCHANGED <<difficulty, offered, stored, node, timers, saving>>

\* adjustedDifficulty without the test difficulty > 1
adjustedDifficultyNoFloor(c, d, expectedBlockTime) ==
  LET lastBlock == c[Len(c)]
  IN  IF lastBlock.index = 0 THEN d
      ELSE LET previousBlock == c[Len(c) - 1]
               timeUsed == lastBlock.timestamp - previousBlock.timestamp
           IN  IF 2 * timeUsed < expectedBlockTime THEN d + 1
               ELSE IF timeUsed > expectedBlockTime * 2 THEN d - 1
               ELSE d

\* the difficulty adjustDifficulty leaves on a Blockchain whose chain is c
\* and whose difficulty is d
adjustedDifficulty(c, d, expectedBlockTime) ==
  LET lastBlock == c[Len(c)]
  IN  IF lastBlock.index = 0 THEN d
      ELSE LET previousBlock == c[Len(c) - 1]
               timeUsed == lastBlock.timestamp - previousBlock.timestamp
           IN  IF 2 * timeUsed < expectedBlockTime THEN d + 1
               ELSE IF timeUsed > expectedBlockTime * 2 /\ d > 1 THEN d - 1
               ELSE d

adjustDifficulty(expectedBlockTime) ==
  /\ difficulty' = adjustedDifficulty(chain, difficulty, expectedBlockTime)
  /\ difficulty' <= HashLen
  /\ lastOp' = Op("adjustDifficulty", TRUE, <<>>, "", <<>>, <<>>)
  /\ UNCHANGED <<chain, pendingTransactions, now, nextId, offered, stored, node, timers, saving>>

\* expectedBlockTime = 10000 ms, the default of adjustDifficulty, in ticks of
\* the model's clock
DefaultExpectedBlockTime == 1

(* --------------------- signing, utils/crypto ---------------------------- *)
\* private keys that pass secp256k1.privateKeyVerify
ValidKeys == {"keyA", "keyB"}

\* keys handed to signTransaction; 'somePrivateKey' is no key of the curve
SigningKeys == ValidKeys \cup {"somePrivateKey"}

\* the address deriveFromPrivateKey gives for a valid private key
AddressOfKey(privateKey) == IF privateKey = "keyA" THEN "A" ELSE "B"

\* Transaction.calculateHash: the fields of the transaction, the signature
\* apart
TransactionHash(tx) ==
  ToString(<<tx.id, tx.fromAddress, tx.toAddress, tx.amount, tx.timestamp,
             tx.type>>)

\* sign: the signature is a function of the data and of the key
sign(data, privateKey) == privateKey \o ":" \o data

\* signTransaction without the test of this.signature
signTransactionAgain(i, signingKey) ==
  LET tx == pendingTransactions[i]
  IN  /\ IF tx.type = "reward"
         THEN /\ lastOp' = Op("signTransaction", TRUE, <<i, signingKey>>, "",
                              <<>>, <<>>)
              /\ UNCHANGED pendingTransactions
         ELSE IF signingKey \notin ValidKeys
         THEN /\ lastOp' = Op("signTransaction", FALSE, <<i, signingKey>>,
                              "sign failed", <<>>, <<>>)
              /\ UNCHANGED pendingTransactions
         ELSE /\ pendingTransactions' =
                   [pendingTransactions EXCEPT
                      ![i].signature = sign(TransactionHash(tx), signingKey)]
              /\ lastOp' = Op("signTransaction", TRUE, <<i, signingKey>>, "",
                              <<>>, <<>>)
      /\ UNCHANGED <<chain, difficulty, now, nextId, offered, stored, node,
                     timers, saving>>

\* signTransaction(signingKey) on the Transaction object at position i of
\* the mempool, to which its creator holds a reference; ecdsaSign throws on
\* a key that is not valid
signTransaction(i, signingKey) ==
  LET tx == pendingTransactions[i]
  IN  /\ IF tx.type = "reward"
         THEN /\ lastOp' = Op("signTransaction", TRUE, <<i, signingKey>>, "",
                              <<>>, <<>>)
              /\ UNCHANGED pendingTransactions
         ELSE IF tx.signature # NULL
         THEN /\ lastOp' = Op("signTransaction", FALSE, <<i, signingKey>>,
                              "already signed", <<>>, <<>>)
              /\ UNCHANGED pendingTransactions
         ELSE IF signingKey \notin ValidKeys
         THEN /\ lastOp' = Op("signTransaction", FALSE, <<i, signingKey>>,
                              "sign failed", <<>>, <<>>)
              /\ UNCHANGED pendingTransactions
         ELSE /\ pendingTransactions' =
                   [pendingTransactions EXCEPT
                      ![i].signature = sign(TransactionHash(tx), signingKey)]
              /\ lastOp' = Op("signTransaction", TRUE, <<i, signingKey>>, "",
                              <<>>, <<>>)
      /\ UNCHANGED <<chain, difficulty, now, nextId, offered, stored, node,
                     timers, saving>>

\* the public key secp256k1.publicKeyCreate gives for a valid private key
PublicKeyOf(privateKey) == IF privateKey = "keyA" THEN "pubA" ELSE "pubB"

\* verifySignature: ecdsaVerify accepts the signatures made over the same
\* data with the private key of publicKey, no other
verifySignature(data, signature, publicKey) ==
  \E k \in ValidKeys : PublicKeyOf(k) = publicKey /\ signature = sign(data, k)

\* how a call tx.isValid(publicKey) ends: the value returned, or the Error
\* thrown for a missing sender or a missing signature
transactionIsValid(tx, publicKey) ==
  IF tx.type = "reward" THEN "true"
  ELSE IF tx.fromAddress = NULL THEN "Error"
  ELSE IF tx.signature = NULL THEN "Error"
  ELSE IF verifySignature(TransactionHash(tx), tx.signature, publicKey)
       THEN "true" ELSE "false"

\* a call tx.isValid(publicKey)
verifyTransaction(tx, publicKey) ==
  /\ lastOp' = Returning(Op("isValid", transactionIsValid(tx, publicKey) = "true",
                            <<tx, publicKey>>, "", <<>>, <<>>),
                         transactionIsValid(tx, publicKey))
  /\ UNCHANGED <<chain, pendingTransactions, difficulty, now, nextId, offered,
                 stored, node, timers, saving>>

(* ------------------------- BlockchainStorage --------------------------- *)
\* db.put('metadata', ...)
putMetadata(db, c, d) ==
  [db EXCEPT !.keys = @ \cup {"metadata"},
             !.metadata = [difficulty |-> d, miningReward |-> miningReward,
                           chainLength |-> Len(c)]]

\* db.put(`block_${i}`, block.toJSON()), blocks counted from 1 here; a save
\* writes the keys in order, so the key is there already or is the next one
putBlock(db, i, block) ==
  [db EXCEPT !.blocks = IF i <= Len(@) THEN [@ EXCEPT ![i] = BlockToJSON(block)]
                        ELSE Append(@, BlockToJSON(block))]

\* db.put('pendingTransactions', pending.map(tx => tx.toJSON()))
putPendingTransactions(db, pending) ==
  [db EXCEPT !.keys = @ \cup {"pendingTransactions"},
             !.pendingTransactions =
               [i \in 1..Len(pending) |-> TransactionToJSON(pending[i])]]

\* saveBlockchain up to its first await: the metadata of the Blockchain with
\* chain c and difficulty d are put, the rest runs after the await
saveBlockchain(c, d) ==
  /\ Len(saving) < MaxSaves
  /\ stored' = putMetadata(stored, c, d)
  /\ saving' = Append(saving, 1)

\* the save at position k of saving goes on after an await: while the loop
\* test i < blockchain.chain.length holds the next block is put, then the
\* pending transactions are put and the save returns; chain and mempool are
\* read as they are now
saveBlockchainResume(k) ==
  LET i == saving[k]
  IN  /\ IF i <= Len(chain)
         THEN /\ stored' = putBlock(stored, i, chain[i])
              /\ saving' = [saving EXCEPT ![k] = i + 1]
              /\ lastOp' = Op("saveBlockchain", FALSE, <<>>, "", <<>>, <<>>)
         ELSE /\ stored' = putPendingTransactions(stored, pendingTransactions)
              /\ saving' = SubSeq(saving, 1, k - 1) \o SubSeq(saving, k + 1, Len(saving))
              /\ lastOp' = Op("saveBlockchain", TRUE, <<>>, "saved", <<>>, <<>>)
      /\ UNCHANGED <<chain, pendingTransactions, difficulty, now, nextId, offered,
                     node, timers>>

\* loadBlockchain reading every block the database holds
loadBlockchainEveryBlock(db) ==
  IF "metadata" \notin db.keys
  THEN [chain |-> <<createGenesisBlock(0)>>, pendingTransactions |-> <<>>,
        difficulty |-> DefaultDifficulty]
  ELSE IF db.metadata.chainLength > Len(db.blocks) THEN NULL
  ELSE [chain |-> [i \in 1..Len(db.blocks) |->
                     BlockFromJSON(db.blocks[i], 0, 0)],
        pendingTransactions |->
          IF "pendingTransactions" \notin db.keys THEN <<>>
          ELSE [i \in 1..Len(db.pendingTransactions) |->
                  TransactionFromJSON(db.pendingTransactions[i], 0, 0)],
        difficulty |-> db.metadata.difficulty]

\* what loadBlockchain returns on database db: chain, mempool and difficulty
\* of the Blockchain it builds, or NULL when a get throws
loadBlockchain(db) ==
  IF "metadata" \notin db.keys
  THEN [chain |-> <<createGenesisBlock(0)>>, pendingTransactions |-> <<>>,
        difficulty |-> DefaultDifficulty]
  ELSE IF db.metadata.chainLength > Len(db.blocks) THEN NULL
  ELSE [chain |-> [i \in 1..db.metadata.chainLength |->
                     BlockFromJSON(db.blocks[i], 0, 0)],
        pendingTransactions |->
          IF "pendingTransactions" \notin db.keys THEN <<>>
          ELSE [i \in 1..Len(db.pendingTransactions) |->
                  TransactionFromJSON(db.pendingTransactions[i], 0, 0)],
        difficulty |-> db.metadata.difficulty]

(* -------------------------------- Node --------------------------------- *)
\* the handle setInterval returns: the least one no live timer has
NewTimer == CHOOSE h \in 1..MaxTimers : h \notin timers /\ \A g \in 1..(h - 1) : g \in timers

\* startMining without the test of isMining
startMiningAgain(n) ==
  IF n.minerAddress = NULL
  THEN /\ node' = n
       /\ lastOp' = Op("startMining", FALSE, <<>>, "", <<>>, <<>>)
       /\ UNCHANGED timers
  ELSE /\ Cardinality(timers) < MaxTimers
       /\ node' = [n EXCEPT !.isMining = TRUE, !.miningInterval = NewTimer]
       /\ timers' = timers \cup {NewTimer}
       /\ lastOp' = Op("startMining", TRUE, <<>>, "started", <<>>, <<>>)

\* startMining, called on a Node whose fields are n
startMining(n) ==
  IF n.isMining \/ n.minerAddress = NULL
  THEN /\ node' = n
       /\ lastOp' = Op("startMining", FALSE, <<>>, "", <<>>, <<>>)
       /\ UNCHANGED timers
  ELSE /\ Cardinality(timers) < MaxTimers
       /\ node' = [n EXCEPT !.isMining = TRUE, !.miningInterval = NewTimer]
       /\ timers' = timers \cup {NewTimer}
       /\ lastOp' = Op("startMining", TRUE, <<>>, "started", <<>>, <<>>)

\* stopMining without clearInterval
stopMiningFlagOnly ==
  IF ~node.isMining
  THEN /\ lastOp' = Op("stopMining", FALSE, <<>>, "", <<>>, <<>>)
       /\ UNCHANGED <<node, timers>>
  ELSE /\ timers' = timers
       /\ node' = [node EXCEPT !.isMining = FALSE]
       /\ lastOp' = Op("stopMining", TRUE, <<>>, "stopped", <<>>, <<>>)

\* stopMining: clearInterval of the handle the node holds
stopMining ==
  IF ~node.isMining
  THEN /\ lastOp' = Op("stopMining", FALSE, <<>>, "", <<>>, <<>>)
       /\ UNCHANGED <<node, timers>>
  ELSE /\ timers' = timers \ {node.miningInterval}
       /\ node' = [node EXCEPT !.isMining = FALSE]
       /\ lastOp' = Op("stopMining", TRUE, <<>>, "stopped", <<>>, <<>>)

\* POST /mine with minerAddress in the body
postMine(minerAddress) ==
  /\ IF minerAddress = NULL \/ node.isMining
     THEN /\ lastOp' = Op("POST /mine", FALSE, <<>>, "400", <<>>, <<>>)
          /\ UNCHANGED <<node, timers>>
     ELSE startMining([node EXCEPT !.minerAddress = minerAddress])
  /\ UNCHANGED <<chain, pendingTransactions, difficulty, now, nextId, offered,
                 stored, saving>>

\* Node.stop up to the first await of its save; storage.close() follows the
\* save and no put is issued after it
stop ==
  /\ stopMining
  /\ saveBlockchain(chain, difficulty)
  /\ UNCHANGED <<chain, pendingTransactions, difficulty, now, nextId, offered>>

\* one run of the callback Node.startMining hands to setInterval: an empty
\* mempool gets a transaction of amount 0, then the block is mined, the
\* difficulty adjusted and saveBlockchain called
miningInterval(minerAddress, dt) ==
  LET ts == now + dt
      idle == pendingTransactions = <<>>
      emptyTx == Transaction(nextId, NULL, minerAddress, 0, ts, "empty")
      pending == IF idle THEN <<emptyTx>> ELSE pendingTransactions
      uuid == IF idle THEN nextId + 1 ELSE nextId
      candidate == CandidateOf(pending, uuid, minerAddress, ts)
      newBlock == mineBlock(candidate)
  IN  /\ uuid < MaxIds
      /\ Len(chain) < MaxChain
      /\ ts <= MaxTime
      /\ chain' = Append(chain, newBlock)
      /\ pendingTransactions' = <<>>
      /\ difficulty' = adjustedDifficulty(chain', difficulty, DefaultExpectedBlockTime)
      /\ difficulty' <= HashLen
      /\ saveBlockchain(chain', difficulty')
      /\ now' = ts
      /\ nextId' = uuid + 1
      /\ lastOp' = Returning(
                      Op("miningInterval", TRUE, <<>>,
                         IF MiningExhausted(candidate) THEN "timeout" ELSE "mined",
                         <<"blockMined">>, <<>>),
                      newBlock)
      /\ UNCHANGED <<offered, node, timers>>

\* the loop of isChainValid from position i on; "" when no check fails
RECURSIVE ChainValidFrom(_, _)
ChainValidFrom(c, i) ==
  IF i > Len(c) THEN ""
  ELSE LET currentBlock == c[i]
           previousBlock == c[i - 1]
       IN  IF currentBlock.hash # calculateHash(currentBlock) THEN "hash"
           ELSE IF currentBlock.previousHash # previousBlock.hash THEN "link"
           ELSE IF Substring(currentBlock.hash, currentBlock.difficulty)
                   # Target(currentBlock.difficulty) THEN "difficulty"
           ELSE ChainValidFrom(c, i + 1)

\* isChainValid of a Blockchain whose chain is c
isChainValidOf(c) == ChainValidFrom(c, 2) = ""

isChainValid == isChainValidOf(chain)

\* ValidChainFrom without its link check
RECURSIVE ValidChainFromNoLink(_, _)
ValidChainFromNoLink(c, i) ==
  IF i > Len(c) THEN ""
  ELSE IF ~MeetsDifficulty(c[i].hash, c[i].difficulty) THEN "difficulty"
  ELSE ValidChainFromNoLink(c, i + 1)

\* the loop of isValidChain from position i on; "" when no check fails
RECURSIVE ValidChainFrom(_, _)
ValidChainFrom(c, i) ==
  IF i > Len(c) THEN ""
  ELSE LET block == c[i]
           previousBlock == c[i - 1]
       IN  IF ~MeetsDifficulty(block.hash, block.difficulty) THEN "difficulty"
           ELSE IF block.previousHash # previousBlock.hash THEN "link"
           ELSE ValidChainFrom(c, i + 1)

\* isValidChainLog without its check of the first block
isValidChainLogNoGenesis(c) == ValidChainFrom(c, 2)

\* the message isValidChain logs for c, "" when it returns true
isValidChainLog(c) ==
  LET genesisBlock == c[1]
  IN  IF genesisBlock.index # 0 \/ ~MeetsDifficulty(genesisBlock.hash, 1)
      THEN "genesis"
      ELSE ValidChainFrom(c, 2)

isValidChain(c) == isValidChainLog(c) = ""

\* the loop of isValidChain from position i on, over a candidate whose
\* blocks may lack the property hash: the value returned, or the error
\* thrown by block.hash.startsWith on a block without hash
RECURSIVE isValidChainLoop(_, _)
isValidChainLoop(c, i) ==
  IF i > Len(c) THEN "true"
  ELSE LET block == c[i]
           previousBlock == c[i - 1]
       IN  IF "hash" \notin DOMAIN block THEN "TypeError"
           ELSE IF ~MeetsDifficulty(block.hash, block.difficulty) THEN "false"
           ELSE IF block.previousHash # previousBlock.hash THEN "false"
           ELSE isValidChainLoop(c, i + 1)

\* how a call isValidChain(c) ends for any list c: chain[0] of an empty
\* list is undefined and reading its index throws; || reads the hash of the
\* first block only when its index is 0
isValidChainResult(c) ==
  IF Len(c) = 0 THEN "TypeError"
  ELSE LET genesisBlock == c[1]
       IN  IF genesisBlock.index # 0 THEN "false"
           ELSE IF "hash" \notin DOMAIN genesisBlock THEN "TypeError"
           ELSE IF ~MeetsDifficulty(genesisBlock.hash, 1) THEN "false"
           ELSE isValidChainLoop(c, 2)

\* a call of isValidChain from outside replaceChain
validateChain(c) ==
  /\ lastOp' = Returning(Op("isValidChain", isValidChainResult(c) = "true", c,
                            "", <<>>, <<>>),
                         isValidChainResult(c))
  /\ UNCHANGED <<chain, pendingTransactions, difficulty, now, nextId, offered,
                 stored, node, timers, saving>>

\* NotLonger with < in place of <=
NotLongerStrict(newChain) == Len(newChain) < Len(chain)

\* the first test of replaceChain
NotLonger(newChain) == Len(newChain) <= Len(chain)

replaceChain(newChain) ==
  /\ offered < MaxMsgs
  /\ offered' = offered + 1
  /\ Len(newChain) <= MaxChain
  /\ IF NotLonger(newChain)
     THEN /\ lastOp' = Op("replaceChain", FALSE, newChain, "not longer",
                          <<>>, <<>>)
          /\ UNCHANGED chain
     ELSE IF ~isValidChain(newChain)
     THEN /\ lastOp' = Op("replaceChain", FALSE, newChain,
                          isValidChainLog(newChain), <<>>, <<>>)
          /\ UNCHANGED chain
     ELSE /\ chain' = newChain
          /\ lastOp' = Op("replaceChain", TRUE, newChain, "replaced",
                          <<"chainReplaced">>, <<>>)
  /\ UNCHANGED <<pendingTransactions, difficulty, now, nextId, stored, node, timers, saving>>

(* ------------------------- what peers may send ------------------------- *)
WrongHash == [i \in 1..HashLen |-> HexBase - 1]      \* 'wrongPreviousHash'

\* '0'.repeat(d) + 'a'.repeat(64 - d): has the prefix, is no digest
FakeHash(d) == [i \in 1..HashLen |-> IF i <= d THEN 0 ELSE HexBase - 1]

\* ids of transactions made by peers: none is an id the local node draws
PeerIdBase == MaxIds + 1
PeerTxId == PeerIdBase + MaxChain + 2

PeerReward(index) ==
  Transaction(PeerIdBase + index, NULL, "B", miningReward, 0, "reward")

Kinds == {"honest", "badlink", "fakehash", "badmerkle", "skipindex", "unmined"}

\* a block a peer builds on prev
PeerBlock(prev, kind, txs, d, ts) ==
  LET base == Block(prev.index + 1, prev.hash, txs, d, ts)
  IN  CASE kind = "honest" -> mineBlock(base)
        [] kind = "badlink" ->
             mineBlock(Block(prev.index + 1, WrongHash, txs, d, ts))
        [] kind = "fakehash" -> [base EXCEPT !.hash = FakeHash(d)]
        [] kind = "badmerkle" ->
             LET b0 == [base EXCEPT !.merkleRoot = WrongHash]
             IN  mineBlock([b0 EXCEPT !.hash = calculateHash(b0)])
        [] kind = "skipindex" ->
             mineBlock(Block(prev.index + 2, prev.hash, txs, d, ts))
        [] kind = "unmined" -> base

\* the transactions of a peer's block at height index
PeerTxs(index) == Append(pendingTransactions, PeerReward(index))

RECURSIVE ChainOn(_, _, _)
\* base extended by one peer block per element of kinds
ChainOn(base, kinds, d) ==
  IF kinds = <<>> THEN base
  ELSE LET prev == base[Len(base)]
       IN  ChainOn(Append(base, PeerBlock(prev, Head(kinds),
                                          PeerTxs(prev.index + 1), d, now)),
                   Tail(kinds), d)

KindSeqs ==
  {<<>>} \cup {<<k>> : k \in Kinds}
         \cup {<<k, "honest">> : k \in {"honest", "badlink"}}

\* the first p local blocks, the first of them left as it is, given
\* index 1, or given a hash that does not start with a zero
PeerBase(p, genesis) ==
  CASE genesis = "ok" -> SubSeq(chain, 1, p)
    [] genesis = "index" -> [SubSeq(chain, 1, p) EXCEPT ![1].index = 1]
    [] genesis = "hash" -> [SubSeq(chain, 1, p) EXCEPT ![1].hash = WrongHash]

\* a chain a peer offers: local blocks grown by peer blocks
PeerChain(p, ks, genesis) == ChainOn(PeerBase(p, genesis), ks, difficulty)

\* a block a peer announces: built on the local block at position p
PeerNewBlock(p, k, empty) ==
  PeerBlock(chain[p], k, IF empty THEN <<>> ELSE PeerTxs(chain[p].index + 1),
            difficulty, now)

(* ------------------------------- P2PNode ------------------------------- *)
\* removeProcessedTransactions
removeProcessedTransactions(pending, processedTransactions) ==
  LET processedIds == { processedTransactions[i].id :
                          i \in 1..Len(processedTransactions) }
  IN  SelectSeq(pending, LAMBDA tx : tx.id \notin processedIds)

\* ExtendsTip without the comparison of hashes
ExtendsTipIndexOnly(newBlock, latestLocalBlock) ==
  newBlock.index = latestLocalBlock.index + 1

\* the test handleNewBlock makes before it validates the block
ExtendsTip(newBlock, latestLocalBlock) ==
  /\ newBlock.index = latestLocalBlock.index + 1
  /\ newBlock.previousHash = latestLocalBlock.hash

\* IsAhead with the next index counted as ahead
IsAheadOrNext(newBlock, latestLocalBlock) ==
  newBlock.index > latestLocalBlock.index

\* the block is more than one index beyond the local tip
IsAhead(newBlock, latestLocalBlock) ==
  newBlock.index > latestLocalBlock.index + 1

handleNewBlock(blockData) ==
  /\ offered < MaxMsgs
  /\ offered' = offered + 1
  /\ Len(chain) < MaxChain
  /\ LET newBlock == BlockFromJSON(blockData, nextId, now)
         latestLocalBlock == getLatestBlock
     IN  IF ExtendsTip(newBlock, latestLocalBlock)
         THEN IF isValid(newBlock)
              THEN /\ chain' = Append(chain, newBlock)
                   /\ pendingTransactions' =
                        removeProcessedTransactions(pendingTransactions,
                                                    newBlock.transactions)
                   /\ lastOp' = Op("handleNewBlock", TRUE, <<>>, "added",
                                   <<"blockchainUpdated">>, <<"NEW_BLOCK">>)
              ELSE /\ lastOp' = Op("handleNewBlock", FALSE, <<>>, "invalid",
                                   <<>>, <<>>)
                   /\ UNCHANGED <<chain, pendingTransactions>>
         ELSE IF IsAhead(newBlock, latestLocalBlock)
         THEN /\ lastOp' = Op("handleNewBlock", FALSE, <<>>, "behind",
                              <<>>, <<"QUERY_ALL">>)
              /\ UNCHANGED <<chain, pendingTransactions>>
         ELSE /\ lastOp' = Op("handleNewBlock", FALSE, <<>>, "", <<>>, <<>>)
              /\ UNCHANGED <<chain, pendingTransactions>>
  /\ UNCHANGED <<difficulty, now, nextId, stored, node, timers, saving>>

RECURSIVE InsertByIndex(_, _)
\* block put after the last element of sorted whose index is not greater
InsertByIndex(sorted, block) ==
  IF sorted = <<>> THEN <<block>>
  ELSE IF sorted[Len(sorted)].index <= block.index THEN Append(sorted, block)
  ELSE Append(InsertByIndex(SubSeq(sorted, 1, Len(sorted) - 1), block),
              sorted[Len(sorted)])

RECURSIVE SortByIndex(_, _)
\* receivedBlocks.sort((a, b) => a.index - b.index), a stable sort
SortByIndex(blocks, n) ==
  IF n = 0 THEN <<>>
  ELSE InsertByIndex(SortByIndex(blocks, n - 1), blocks[n])

\* ResponseSorted without the chain.pop() of its rollback
ResponseSortedNoRollback(receivedBlocks) ==
  LET latestReceivedBlock == receivedBlocks[Len(receivedBlocks)]
      latestLocalBlock == getLatestBlock
  IN  IF latestReceivedBlock.index <= latestLocalBlock.index
      THEN /\ lastOp' = Op("handleBlockchainResponse", FALSE, <<>>,
                           "not longer", <<>>, <<>>)
           /\ UNCHANGED chain
      ELSE IF latestReceivedBlock.previousHash = latestLocalBlock.hash
      THEN /\ Len(chain) < MaxChain
           /\ IF isChainValidOf(Append(chain, latestReceivedBlock))
              THEN /\ chain' = Append(chain, latestReceivedBlock)
                   /\ lastOp' = Op("handleBlockchainResponse", TRUE, <<>>,
                                   "added", <<"blockchainUpdated">>,
                                   <<"NEW_BLOCK">>)
              ELSE /\ lastOp' = Op("handleBlockchainResponse", FALSE, <<>>,
                                   "rolled back", <<>>, <<>>)
                   /\ chain' = Append(chain, latestReceivedBlock)
      ELSE IF Len(receivedBlocks) > 1
      THEN IF isChainValidOf(receivedBlocks)
           THEN /\ chain' = receivedBlocks
                /\ lastOp' = Op("handleBlockchainResponse", TRUE, <<>>,
                                "replaced", <<"blockchainUpdated">>, <<>>)
           ELSE /\ lastOp' = Op("handleBlockchainResponse", FALSE, <<>>,
                                "invalid", <<>>, <<>>)
                /\ UNCHANGED chain
      ELSE /\ lastOp' = Op("handleBlockchainResponse", FALSE, <<>>, "",
                           <<>>, <<>>)
           /\ UNCHANGED chain

\* handleBlockchainResponse once the data is parsed and sorted
ResponseSorted(receivedBlocks) ==
  LET latestReceivedBlock == receivedBlocks[Len(receivedBlocks)]
      latestLocalBlock == getLatestBlock
  IN  IF latestReceivedBlock.index <= latestLocalBlock.index
      THEN /\ lastOp' = Op("handleBlockchainResponse", FALSE, <<>>,
                           "not longer", <<>>, <<>>)
           /\ UNCHANGED chain
      ELSE IF latestReceivedBlock.previousHash = latestLocalBlock.hash
      THEN /\ Len(chain) < MaxChain
           /\ IF isChainValidOf(Append(chain, latestReceivedBlock))
              THEN /\ chain' = Append(chain, latestReceivedBlock)
                   /\ lastOp' = Op("handleBlockchainResponse", TRUE, <<>>,
                                   "added", <<"blockchainUpdated">>,
                                   <<"NEW_BLOCK">>)
              ELSE /\ lastOp' = Op("handleBlockchainResponse", FALSE, <<>>,
                                   "rolled back", <<>>, <<>>)
                   /\ UNCHANGED chain
      ELSE IF Len(receivedBlocks) > 1
      THEN IF isChainValidOf(receivedBlocks)
           THEN /\ chain' = receivedBlocks
                /\ lastOp' = Op("handleBlockchainResponse", TRUE, <<>>,
                                "replaced", <<"blockchainUpdated">>, <<>>)
           ELSE /\ lastOp' = Op("handleBlockchainResponse", FALSE, <<>>,
                                "invalid", <<>>, <<>>)
                /\ UNCHANGED chain
      ELSE /\ lastOp' = Op("handleBlockchainResponse", FALSE, <<>>, "",
                           <<>>, <<>>)
           /\ UNCHANGED chain

handleBlockchainResponse(blockchainData) ==
  /\ offered < MaxMsgs
  /\ offered' = offered + 1
  /\ Len(blockchainData) <= MaxChain
  /\ IF Len(blockchainData) = 0
     THEN /\ lastOp' = Op("handleBlockchainResponse", FALSE, <<>>, "no data",
                          <<>>, <<>>)
          /\ UNCHANGED chain
     ELSE \E receivedBlocks \in
               { SortByIndex([i \in 1..Len(blockchainData) |->
                                BlockFromJSON(blockchainData[i], nextId, now)],
                             Len(blockchainData)) } :
            ResponseSorted(receivedBlocks)
  /\ UNCHANGED <<pendingTransactions, difficulty, now, nextId, stored, node, timers, saving>>

\* true when some pending transaction has the id of transaction
isExisting(transaction) ==
  \E i \in 1..Len(pendingTransactions) :
    pendingTransactions[i].id = transaction.id

handleNewTransaction(transactionData) ==
  /\ offered < MaxMsgs
  /\ offered' = offered + 1
  /\ LET transaction == TransactionFromJSON(transactionData, nextId, now)
     IN  IF ~isExisting(transaction)
         THEN /\ Len(pendingTransactions) < MaxPending
              /\ pendingTransactions' = Append(pendingTransactions, transaction)
              /\ lastOp' = Op("handleNewTransaction", TRUE, <<>>, "added", <<>>,
                              <<"NEW_TRANSACTION">>)
         ELSE /\ lastOp' = Op("handleNewTransaction", FALSE, <<>>, "", <<>>, <<>>)
              /\ UNCHANGED pendingTransactions
  /\ UNCHANGED <<chain, difficulty, now, nextId, stored, node, timers, saving>>

\* what a peer answers: a whole chain, its latest block, the chain without
\* its first block, or the chain in reverse order
RECURSIVE Reverse(_)
Reverse(c) == IF c = <<>> THEN <<>> ELSE Append(Reverse(Tail(c)), Head(c))

PeerResponse(c, shape) ==
  CASE shape = "all" -> c
    [] shape = "latest" -> <<c[Len(c)]>>
    [] shape = "tail" -> Tail(c)
    [] shape = "reversed" -> Reverse(c)

\* the transfers the node has confirmed: it broadcast each of them when it
\* admitted it, and a peer that admits one sends it to all its peers, the
\* node included
Echoed ==
  UNION { { chain[i].transactions[j] : j \in 1..Len(chain[i].transactions) } :
            i \in 1..Len(chain) }

\* transactions peers gossip: one of their own, a worthless one, the
\* pending ones again, and late copies of confirmed transfers
PeerTransactions ==
  { Transaction(PeerTxId, "A", "B", a, 0, "regular") : a \in {0, 30} }
    \cup { pendingTransactions[i] : i \in 1..Len(pendingTransactions) }
    \cup { tx \in Echoed : tx.type = "regular" }

(* ------------------------ direct mutation of a block ------------------- *)
\* chain[i].transactions[j].amount = amount, nothing recomputed
tamperAmount(i, j, amount) ==
  /\ chain[i].transactions[j].amount # amount
  /\ chain' = [chain EXCEPT ![i].transactions[j].amount = amount]
  /\ lastOp' = Op("tamperAmount", TRUE, <<>>, "", <<>>, <<>>)
  /\ UNCHANGED <<pendingTransactions, difficulty, now, nextId, offered, stored, node, timers, saving>>

\* chain[i].transactions is given the content txs (a push, a pop, an
\* assignment to an element or to its id), nothing recomputed
tamperTransactions(i, txs) ==
  /\ chain' = [chain EXCEPT ![i].transactions = txs]
  /\ lastOp' = Op("tamperTransactions", TRUE, <<i>>, "", <<>>, <<>>)
  /\ UNCHANGED <<pendingTransactions, difficulty, now, nextId, offered, stored, node, timers, saving>>

\* every step adds the Blockchain it leaves to what the saves in progress
\* may have read
Observe ==
  seen' = IF saving' = <<>> THEN {}
          ELSE seen \cup {[chain |-> chain', pendingTransactions |-> pendingTransactions',
                            difficulty |-> difficulty']}

\* the calls the environment makes, with the arguments it may pass
Submit ==
  /\ nextId < MaxIds
  /\ Len(pendingTransactions) < MaxPending
  /\ \E tx \in TxInputs : addTransaction(tx)
  /\ Observe

\* addTransaction called again with a Transaction object that is pending;
\* every pending transaction is handed in a second time at most
Resubmit ==
  /\ Len(pendingTransactions) <= MaxPending
  /\ \E i \in 1..Len(pendingTransactions) :
       /\ \A j \in 1..Len(pendingTransactions) :
            pendingTransactions[j].id = pendingTransactions[i].id => j = i
       /\ addTransaction(pendingTransactions[i])
  /\ Observe

\* the creator of a pending transaction signs it, with any key
Sign ==
  /\ \E i \in 1..Len(pendingTransactions), signingKey \in SigningKeys :
       signTransaction(i, signingKey)
  /\ Observe

\* the transaction tx as its holder may have changed it: left alone, or with
\* one of the fields assigned anew
ChangedCopies(tx) ==
  {tx, [tx EXCEPT !.id = PeerTxId], [tx EXCEPT !.fromAddress = "B"],
   [tx EXCEPT !.fromAddress = NULL], [tx EXCEPT !.toAddress = "A"],
   [tx EXCEPT !.amount = 100], [tx EXCEPT !.timestamp = MaxTime + 1],
   [tx EXCEPT !.type = IF tx.type = "reward" THEN "regular" ELSE "reward"]}

\* a pending transaction, changed or not, is verified under a public key
Verify ==
  /\ \E i \in 1..Len(pendingTransactions), k \in ValidKeys :
       \E tx \in ChangedCopies(pendingTransactions[i]) :
         verifyTransaction(tx, PublicKeyOf(k))
  /\ Observe

\* POST /mine, with and without an address
PostMine ==
  /\ \E minerAddress \in {"A", NULL} : postMine(minerAddress)
  /\ Observe

\* Node.start calls startMining
StartMining ==
  /\ startMining(node)
  /\ UNCHANGED <<chain, pendingTransactions, difficulty, now, nextId, offered,
                 stored, saving>>
  /\ Observe

\* POST /mine/stop
PostMineStop ==
  /\ stopMining
  /\ UNCHANGED <<chain, pendingTransactions, difficulty, now, nextId, offered,
                 stored, saving>>
  /\ Observe

\* Node.stop
Stop ==
  /\ stop
  /\ Observe

\* a live timer of the node fires
MiningTick ==
  /\ timers # {}
  /\ \E dt \in Deltas : miningInterval(node.minerAddress, dt)
  /\ Observe

\* an await of a save in progress returns
SaveResume ==
  /\ \E k \in 1..Len(saving) : saveBlockchainResume(k)
  /\ Observe

Mine ==
  /\ \E a \in {"A"}, dt \in Deltas : minePendingTransactions(a, dt)
  /\ Observe

\* minePendingTransactions with either address as the reward address
MineFor ==
  /\ \E a \in {"A", "B"}, dt \in Deltas : minePendingTransactions(a, dt)
  /\ Observe

\* a transaction is submitted to a fresh node: nothing mined, nothing
\* saved, the timer not started
SubmitIdle ==
  /\ ~node.isMining
  /\ "metadata" \notin stored.keys
  /\ Len(chain) = 1
  /\ Submit

\* minePendingTransactions is called on a node that has not started its
\* timer nor saved yet
MineIdle ==
  /\ ~node.isMining
  /\ "metadata" \notin stored.keys
  /\ Mine

\* the block times callers of adjustDifficulty expect, in ticks of the clock
ExpectedBlockTimes == {DefaultExpectedBlockTime, 2 * DefaultExpectedBlockTime}

Adjust ==
  /\ \E T \in ExpectedBlockTimes : adjustDifficulty(T)
  /\ Observe

\* peers offer a chain grown from the genesis block or from the local tip,
\* and chains whose first block is no genesis block
Replace ==
  /\ offered < MaxMsgs
  /\ \/ \E p \in {1, Len(chain)}, ks \in KindSeqs :
          \E c \in {PeerChain(p, ks, "ok")} : replaceChain(c)
     \/ \E c \in {PeerChain(Len(chain), <<"honest">>, "index")} : replaceChain(c)
     \/ \E c \in {PeerChain(1, <<"honest", "honest">>, "hash")} : replaceChain(c)
  /\ Observe

\* the block b as an object without the property hash
WithoutHash(b) == [f \in DOMAIN b \ {"hash"} |-> b[f]]

\* lists handed to isValidChain: the local chain, its prefixes down to the
\* empty list, its blocks after the genesis block, and the local chain with
\* one block that lacks its hash
ValidateInputs ==
  {SubSeq(chain, 1, k) : k \in 0..Len(chain)}
    \cup {SubSeq(chain, 2, Len(chain))}
    \cup {[chain EXCEPT ![k] = WithoutHash(chain[k])] : k \in 1..Len(chain)}

Validate ==
  /\ \E c \in ValidateInputs : validateChain(c)
  /\ Observe

\* peers announce a block built on the local tip, or a stale one
NewBlockInputs ==
  { PeerNewBlock(Len(chain), k, empty) : k \in Kinds, empty \in BOOLEAN }
    \cup (IF Len(chain) > 1 THEN {PeerNewBlock(Len(chain) - 1, "honest", FALSE)}
          ELSE {})

NewBlock ==
  /\ offered < MaxMsgs
  /\ \E b \in NewBlockInputs : handleNewBlock(b)
  /\ Observe

\* peers answer with a chain, with the latest block of one grown from the
\* local tip, with an honest chain that lacks its first block or is reversed
ChainResponse ==
  /\ offered < MaxMsgs
  /\ \/ \E p \in {1, Len(chain)}, ks \in KindSeqs :
          \E c \in {PeerResponse(PeerChain(p, ks, "ok"), "all")} :
            handleBlockchainResponse(c)
     \/ \E k \in Kinds :
          \E c \in {PeerResponse(PeerChain(Len(chain), <<k>>, "ok"), "latest")} :
            handleBlockchainResponse(c)
     \/ \E shape \in {"tail", "reversed"}, ks \in {<<>>, <<"honest">>} :
          \E c \in {PeerResponse(PeerChain(Len(chain), ks, "ok"), shape)} :
            handleBlockchainResponse(c)
  /\ Observe

\* a peer answers with the blocks after the genesis block of a chain of its
\* own, grown from the genesis block
ForkResponse ==
  /\ offered < MaxMsgs
  /\ \E c \in {PeerResponse(PeerChain(1, <<"honest", "honest">>, "ok"),
                             "tail")} :
       handleBlockchainResponse(c)
  /\ Observe

\* a peer whose chain grew by three blocks from the genesis block answers
\* with its last two blocks, to a node that holds more blocks than that
ShortResponse ==
  /\ offered < MaxMsgs
  /\ Len(chain) > 2
  /\ \E c \in {SubSeq(PeerChain(1, <<"honest", "honest", "honest">>, "ok"),
                        3, 4)} :
       handleBlockchainResponse(c)
  /\ Observe

NewTransaction ==
  /\ \E tx \in PeerTransactions : handleNewTransaction(tx)
  /\ Observe

Next ==
  \/ Submit
  \/ Resubmit
  \/ Mine
  \/ Adjust
  \/ Replace
  \/ NewBlock
  \/ ChainResponse
  \/ NewTransaction
  \/ ForkResponse
  \/ ShortResponse

Spec == Init /\ [][Next]_vars

\* the Node of this repository: the HTTP handlers, the mining timer and the
\* saves; Node.init leaves P2P off
NextNode ==
  \/ Submit
  \/ PostMine
  \/ StartMining
  \/ PostMineStop
  \/ Stop
  \/ MiningTick
  \/ SaveResume

SpecNode == Init /\ [][NextNode]_vars

\* a Node whose P2PNode is on: blocks and chains of peers arrive between
\* the awaits of the saves
NextSync ==
  \/ Submit
  \/ PostMine
  \/ MiningTick
  \/ SaveResume
  \/ NewBlock
  \/ ChainResponse

SpecSync == Init /\ [][NextSync]_vars

\* the mining task of a Node alone
NextMining ==
  \/ PostMine
  \/ StartMining
  \/ PostMineStop
  \/ Stop
  \/ MiningTick
  \/ SaveResume

SpecMining == Init /\ [][NextMining]_vars

\* a node that only submits, mines and adjusts: no peer, no candidate chain
NextLocal ==
  \/ Submit
  \/ Mine
  \/ Adjust

SpecLocal == Init /\ [][NextLocal]_vars

\* a node that submits and mines while peers offer it candidate chains
NextReplace ==
  \/ Submit
  \/ Mine
  \/ Replace

SpecReplace == Init /\ [][NextReplace]_vars

\* a fresh node takes a transaction or mines on request, then mines on its
\* timer and saves, is shut down, and may take a peer's answer in between
NextStore ==
  \/ SubmitIdle
  \/ MineIdle
  \/ PostMine
  \/ MiningTick
  \/ SaveResume
  \/ Stop
  \/ ShortResponse

SpecStore == Init /\ [][NextStore]_vars

\* a node that submits and mines while callers sign what they submitted
NextSign ==
  \/ Submit
  \/ Mine
  \/ Sign
  \/ Verify

SpecSign == Init /\ [][NextSign]_vars

\* a node that submits and mines while lists of blocks are validated
NextValidate ==
  \/ Submit
  \/ Mine
  \/ Validate

SpecValidate == Init /\ [][NextValidate]_vars

\* a node that submits and mines while peers announce blocks and answer
\* with chains
NextAppend ==
  \/ Submit
  \/ Mine
  \/ NewBlock
  \/ ChainResponse

SpecAppend == Init /\ [][NextAppend]_vars

\* a node that mines, for any reward address, while peers answer with
\* chains
NextResponse ==
  \/ MineFor
  \/ ChainResponse

SpecResponse == Init /\ [][NextResponse]_vars

\* a node that submits and mines while peers announce blocks and gossip
\* transactions
NextGossip ==
  \/ Submit
  \/ Mine
  \/ NewBlock
  \/ NewTransaction

SpecGossip == Init /\ [][NextGossip]_vars

\* one node that admits transactions and mines, for any reward address
NextWallet ==
  \/ Submit
  \/ Resubmit
  \/ MineFor

SpecWallet == Init /\ [][NextWallet]_vars

\* a node that submits and mines while peers announce blocks
NextNewBlock ==
  \/ Submit
  \/ Mine
  \/ NewBlock

SpecNewBlock == Init /\ [][NextNewBlock]_vars

\* the same node when a caller also writes into confirmed transactions
Tamper ==
  /\ \E i \in 1..Len(chain) :
       \E j \in 1..Len(chain[i].transactions) :
         \E amount \in {100} : tamperAmount(i, j, amount)
  /\ Observe

\* the ids of the transactions txs, in their order
IdsOf(txs) == [j \in 1..Len(txs) |-> txs[j].id]

\* lists that differ from txs in their ids: one transaction more, the last
\* one less, the order reversed, the first id replaced
ListChanges(txs) ==
  { l \in {Append(txs, Transaction(PeerTxId, "A", "B", 20, now, "regular")),
           SubSeq(txs, 1, Len(txs) - 1),
           Reverse(txs),
           [j \in 1..Len(txs) |->
              IF j = 1 THEN [txs[j] EXCEPT !.id = PeerTxId] ELSE txs[j]]} :
      IdsOf(l) # IdsOf(txs) }

\* the list of a block that passes isValid is changed
TamperList ==
  /\ \E i \in 1..Len(chain) :
       /\ isValid(chain[i])
       /\ \E txs \in ListChanges(chain[i].transactions) :
            tamperTransactions(i, txs)
  /\ Observe

NextTamper ==
  \/ Submit
  \/ Mine
  \/ Adjust
  \/ Tamper

SpecTamper == Init /\ [][NextTamper]_vars

\* a node that submits and mines while the transaction lists of its blocks
\* are changed from outside
NextTamperList ==
  \/ Submit
  \/ Mine
  \/ TamperList

SpecTamperList == Init /\ [][NextTamperList]_vars

(* ------------------------------- claims -------------------------------- *)
\* the first d digits of h exist and are all zero
LeadingZeros(h, d) == d <= HashLen /\ \A k \in 1..d : h[k] = 0

\* some block of c does not name the hash of the block before it
BrokenLink(c) == \E i \in 2..Len(c) : c[i].previousHash # c[i - 1].hash

\* C1: every block after the first names the hash of its predecessor,
\* whatever sequence of local mining and peer appends built the chain.
C1_ChainLinked ==
  \A i \in 2..Len(chain) : chain[i].previousHash = chain[i - 1].hash

\* C1 witness: a peer's block was appended on top of an earlier block
C1_Witness ==
  /\ lastOp.op = "handleNewBlock"
  /\ lastOp.ok
  /\ Len(chain) >= 3

\* C2: when mineBlock returns, the first d digits of the block's hash are
\* zero, d being the block's difficulty (d >= 1).
C2_MinedHashMeetsDifficulty ==
  lastOp.op = "minePendingTransactions" =>
    LET block == chain[Len(chain)]
    IN  block.difficulty >= 1 => LeadingZeros(block.hash, block.difficulty)

\* C3: a nonce search that uses up its budget is reported as a failure and
\* appends nothing; mining never appends a block whose hash is not the
\* digest of its fields.
C3_ExhaustedSearchAppendsNothing ==
  [][lastOp'.op = "minePendingTransactions" =>
       /\ lastOp'.log = "timeout" =>
            /\ ~lastOp'.ok
            /\ chain' = chain
            /\ pendingTransactions' = pendingTransactions
       /\ chain' # chain =>
            chain'[Len(chain')].hash = calculateHash(chain'[Len(chain')])]_vars

\* C4: on a node that only submits, mines and adjusts its difficulty, every
\* mined block passes isValid and the chain passes isChainValid.
C4_MinedChainValid ==
  /\ \A i \in 2..Len(chain) : isValid(chain[i])
  /\ isChainValid

\* C5: once the amount of a confirmed transaction has been changed without
\* recomputing anything, isChainValid returns false.
C5_TamperDetected ==
  lastOp.op = "tamperAmount" => ~isChainValid

\* C6: replaceChain with a candidate that is not longer than the chain
\* returns false and changes neither chain, mempool nor difficulty.
C6_NotLongerRejected ==
  [][(lastOp'.op = "replaceChain" /\ Len(lastOp'.arg) <= Len(chain)) =>
       /\ ~lastOp'.ok
       /\ UNCHANGED <<chain, pendingTransactions, difficulty>>]_vars

\* C6 witness: a valid candidate as long as the chain was turned down
C6_Witness ==
  /\ lastOp.op = "replaceChain"
  /\ ~lastOp.ok
  /\ Len(chain) >= 2
  /\ Len(lastOp.arg) = Len(chain)
  /\ lastOp.arg # chain
  /\ isValidChain(lastOp.arg)

\* C7: replaceChain with a longer candidate that has a broken link returns
\* false and leaves the chain as it was.
C7_BrokenLinkRejected ==
  [][(/\ lastOp'.op = "replaceChain"
      /\ Len(lastOp'.arg) > Len(chain)
      /\ BrokenLink(lastOp'.arg)) =>
       /\ ~lastOp'.ok
       /\ chain' = chain]_vars

\* C7 witness: a longer candidate was turned down, its only flaw a link
C7_Witness ==
  /\ lastOp.op = "replaceChain"
  /\ ~lastOp.ok
  /\ Len(lastOp.arg) > Len(chain)
  /\ BrokenLink(lastOp.arg)
  /\ lastOp.arg[1].index = 0
  /\ \A i \in 1..Len(lastOp.arg) :
       LeadingZeros(lastOp.arg[i].hash, lastOp.arg[i].difficulty)

\* ValidateChain of the specification: a first block of index 0 whose hash
\* starts with a zero, then blocks that meet their difficulty and link up
ValidateChain(c) ==
  /\ c[1].index = 0
  /\ LeadingZeros(c[1].hash, 1)
  /\ \A i \in 2..Len(c) :
       /\ LeadingZeros(c[i].hash, c[i].difficulty)
       /\ c[i].previousHash = c[i - 1].hash

\* C8: replaceChain returns true exactly for a longer candidate that passes
\* ValidateChain; it then installs the candidate, emits one chainReplaced
\* event and leaves mempool and difficulty alone; a rejection emits nothing.
C8_ReplaceIffLongerAndValid ==
  [][lastOp'.op = "replaceChain" =>
       /\ lastOp'.ok <=>
            (Len(lastOp'.arg) > Len(chain) /\ ValidateChain(lastOp'.arg))
       /\ lastOp'.ok =>
            /\ chain' = lastOp'.arg
            /\ lastOp'.events = <<"chainReplaced">>
            /\ UNCHANGED <<pendingTransactions, difficulty>>
       /\ ~lastOp'.ok => lastOp'.events = <<>>]_vars

\* C8 witness: a longer valid candidate replaced a chain of mined blocks
C8_Witness ==
  /\ lastOp.op = "replaceChain"
  /\ lastOp.ok
  /\ chain = lastOp.arg
  /\ Len(chain) >= 3
  /\ lastOp.events = <<"chainReplaced">>

\* the transactions of the blocks of c, in chain order
RECURSIVE Confirmed(_)
Confirmed(c) ==
  IF c = <<>> THEN <<>> ELSE Head(c).transactions \o Confirmed(Tail(c))

\* the sum of the amounts of the transactions of txs paid to address a
RECURSIVE Received(_, _)
Received(txs, a) ==
  IF txs = <<>> THEN 0
  ELSE (IF Head(txs).toAddress = a THEN Head(txs).amount ELSE 0) + Received(Tail(txs), a)

\* the sum of the amounts of the transactions of txs paid by address a
RECURSIVE Sent(_, _)
Sent(txs, a) ==
  IF txs = <<>> THEN 0
  ELSE (IF Head(txs).fromAddress = a THEN Head(txs).amount ELSE 0) + Sent(Tail(txs), a)

\* what address a has received less what it has sent, over the blocks of c
ConfirmedBalance(c, a) == Received(Confirmed(c), a) - Sent(Confirmed(c), a)

\* a transaction the specification's SubmitTransaction must refuse
MustRefuse(tx) ==
  \/ tx.toAddress = NULL
  \/ tx.amount <= 0
  \/ /\ tx.type # "reward"
     /\ \/ tx.fromAddress = NULL
        \/ ConfirmedBalance(chain, tx.fromAddress) < tx.amount

\* the transactions a caller may hand to addTransaction
Submittable ==
  TxInputs \cup { pendingTransactions[i] : i \in 1..Len(pendingTransactions) }

\* C11: addTransaction of a transaction without recipient, with an amount
\* that is not positive, or of a transfer without sender or beyond the
\* sender's confirmed balance fails: mempool and chain stay as they were
\* and no transactionAdded event is emitted.
C11_InvalidTransactionRefused ==
  [][\A tx \in Submittable :
       (addTransaction(tx) /\ MustRefuse(tx)) =>
         /\ ~lastOp'.ok
         /\ UNCHANGED <<pendingTransactions, chain>>
         /\ lastOp'.events = <<>>]_vars

\* C11 witness: a submission was refused on a chain with a mined block
C11_Witness ==
  /\ lastOp.op = "addTransaction"
  /\ ~lastOp.ok
  /\ Len(chain) >= 2
  /\ ConfirmedBalance(chain, "A") > 0

C13_BalanceIsConfirmedSum ==
  \A a \in {"A", "B"} : getBalanceOfAddress(a) = ConfirmedBalance(chain, a)

\* C13 witness: after two rewards to A and a confirmed transfer of 30 from
\* A to B the balances are 70 and 30
C13_Witness ==
  /\ \E i \in 1..Len(Confirmed(chain)) :
       /\ Confirmed(chain)[i].fromAddress = "A"
       /\ Confirmed(chain)[i].toAddress = "B"
  /\ getBalanceOfAddress("A") = 2 * miningReward - 30
  /\ getBalanceOfAddress("B") = 30

\* C14: minePendingTransactions(m) appends exactly one block; its
\* transactions are the mempool in order followed by one reward transaction
\* (no sender, paid to m, amount miningReward, kind reward); afterwards the
\* mempool is empty, the chain is one block longer and the block returned
\* is the tip.
C14_MinedBlockHoldsMempoolAndReward ==
  [][\A m \in {"A"}, dt \in Deltas :
       minePendingTransactions(m, dt) =>
         LET n == Len(pendingTransactions)
             tip == chain'[Len(chain')]
             reward == tip.transactions[n + 1]
         IN  /\ Len(chain') = Len(chain) + 1
             /\ SubSeq(chain', 1, Len(chain)) = chain
             /\ Len(tip.transactions) = n + 1
             /\ SubSeq(tip.transactions, 1, n) = pendingTransactions
             /\ reward.fromAddress = NULL
             /\ reward.toAddress = m
             /\ reward.amount = miningReward
             /\ reward.type = "reward"
             /\ pendingTransactions' = <<>>
             /\ lastOp'.ret = tip]_vars

\* C14 witness: a block was mined from a mempool that held a transaction
C14_Witness ==
  /\ lastOp.op = "minePendingTransactions"
  /\ lastOp.ret = chain[Len(chain)]
  /\ Len(lastOp.ret.transactions) >= 2
  /\ pendingTransactions = <<>>

\* a transfer that carries no signature
UnsignedTransfer(tx) == tx.type # "reward" /\ tx.signature = NULL

\* C15: a transfer whose signature is missing or invalid is rejected at
\* admission, by addTransaction and by the handler of NEW_TRANSACTION alike.
C15_UnsignedTransferRefused ==
  [][/\ \A tx \in Submittable :
          (addTransaction(tx) /\ UnsignedTransfer(tx)) => ~lastOp'.ok
     /\ \A tx \in PeerTransactions :
          (handleNewTransaction(tx) /\ UnsignedTransfer(tx)) =>
            pendingTransactions' = pendingTransactions]_vars

\* C16: a transaction received from a peer enters the mempool only if
\* addTransaction would admit it.
C16_PeerTransactionValidated ==
  [][\A tx \in PeerTransactions :
       (handleNewTransaction(tx) /\ pendingTransactions' # pendingTransactions) =>
         addTransactionError(tx) = ""]_vars

\* C17: no two transactions of the mempool have the same id, whatever
\* sequence of addTransaction, NEW_TRANSACTION and mining led there.
C17_PendingIdsUnique ==
  \A i, j \in 1..Len(pendingTransactions) :
    pendingTransactions[i].id = pendingTransactions[j].id => i = j

\* the transactions of the mempool and of the blocks mined or received;
\* the genesis block holds none
EveryTransaction ==
  { pendingTransactions[i] : i \in 1..Len(pendingTransactions) }
    \cup { Confirmed(chain)[i] : i \in 1..Len(Confirmed(chain)) }

\* the invariants spec.md 3 states for a Transaction
WellFormed(tx) ==
  /\ tx.amount > 0
  /\ tx.toAddress # NULL
  /\ \/ tx.type = "regular" /\ tx.fromAddress # NULL
     \/ tx.type = "reward"

\* C18: in a running node every transaction of the mempool and of the
\* chain has a positive amount and a recipient, and is a transfer with a
\* sender or a reward.
C18_TransactionsWellFormed == \A tx \in EveryTransaction : WellFormed(tx)

\* C19: a RESPONSE_BLOCKCHAIN off the fast path replaces the chain only by
\* a candidate replaceChain would accept, one with strictly more blocks that
\* passes ValidateChain; otherwise chain and mempool stay as they were.
C19_ResponseReplacesAsReplaceChain ==
  [][lastOp'.op = "handleBlockchainResponse" =>
       /\ pendingTransactions' = pendingTransactions
       /\ IF lastOp'.log = "replaced"
          THEN Len(chain') > Len(chain) /\ ValidateChain(chain')
          ELSE lastOp'.log = "added" \/ chain' = chain]_vars

\* C20: a NEW_BLOCK whose index is beyond the tip's by more than one is not
\* appended, leaves chain and mempool alone and makes the node send
\* QUERY_ALL; one whose index is not beyond the tip's, or is the next index
\* with a previousHash that is not the tip's hash, appends nothing and
\* broadcasts nothing.
C20_OutOfOrderBlockNotAppended ==
  [][lastOp'.op = "handleNewBlock" =>
       \A b \in NewBlockInputs :
         handleNewBlock(b) =>
           LET tip == chain[Len(chain)]
           IN  /\ b.index > tip.index + 1 =>
                    /\ chain' = chain
                    /\ pendingTransactions' = pendingTransactions
                    /\ lastOp'.sent = <<"QUERY_ALL">>
               /\ (\/ b.index <= tip.index
                   \/ b.index = tip.index + 1 /\ b.previousHash # tip.hash) =>
                    /\ chain' = chain
                    /\ lastOp'.sent = <<>>]_vars

\* C20 witness: a block two indices beyond the tip of a mined chain made the
\* node ask for the whole chain
C20_Witness ==
  /\ lastOp.op = "handleNewBlock"
  /\ lastOp.sent = <<"QUERY_ALL">>
  /\ Len(chain) >= 2

\* the node holds a transaction with the id of tx, pending or confirmed
Held(tx) ==
  \/ \E i \in 1..Len(pendingTransactions) : pendingTransactions[i].id = tx.id
  \/ \E t \in Echoed : t.id = tx.id

\* C21: a NEW_TRANSACTION with an id the node already holds is neither
\* admitted nor broadcast again, also when a block was mined since the node
\* admitted it; every node then relays a transaction once and the gossip of
\* one transaction among finitely many peers ends.
C21_HeldTransactionNotRelayed ==
  [][lastOp'.op = "handleNewTransaction" =>
       \A tx \in PeerTransactions :
         (handleNewTransaction(tx) /\ Held(tx)) =>
           /\ pendingTransactions' = pendingTransactions
           /\ lastOp'.sent = <<>>]_vars

\* the loop of mineBlock ran to its end on b: the hash has the prefix or
\* the budget of attempts is used up
SearchEnded(b) ==
  MeetsDifficulty(b.hash, b.difficulty) \/ b.nonce = MaxAttempts

\* C22: while the node is not mining, from the return of stopMining to the
\* next startMining, the miner appends no block; and every block the miner
\* appends comes out of a nonce search that ran to its end, never out of an
\* abandoned one.
C22_StoppedMinerAppendsNothing ==
  [][/\ ~node.isMining => chain' = chain
     /\ chain' # chain =>
          /\ Len(chain') = Len(chain) + 1
          /\ SubSeq(chain', 1, Len(chain)) = chain
          /\ SearchEnded(chain'[Len(chain')])]_vars

\* C22 witness: the miner was stopped after it had appended a block, and
\* its timer is gone
C22_Witness ==
  /\ lastOp.op = "stopMining"
  /\ lastOp.ok
  /\ ~node.isMining
  /\ timers = {}
  /\ Len(chain) >= 2

\* C23: a node has one mining timer at most, none without a miner address,
\* and isMining is true exactly when the timer is scheduled, whatever
\* sequence of startMining, POST /mine, POST /mine/stop and stop ran.
C23_OneMiningTimer ==
  /\ Cardinality(timers) <= 1
  /\ node.isMining <=> timers # {}
  /\ node.isMining => timers = {node.miningInterval}
  /\ node.minerAddress = NULL => timers = {}

\* C23 witness: POST /mine was refused because the node was mining, and
\* the one timer is still the only one
C23_Witness ==
  /\ lastOp.op = "POST /mine"
  /\ ~lastOp.ok
  /\ node.isMining
  /\ timers = {node.miningInterval}

\* C24: every accepted mutation of the chain state (a transaction
\* admitted, a block appended, the chain replaced) is followed by a call of
\* saveBlockchain with the state the mutation left.
C24_MutationSaved ==
  [][(chain' # chain \/ pendingTransactions' # pendingTransactions) =>
       /\ Len(saving') = Len(saving) + 1
       /\ stored'.metadata = [difficulty |-> difficulty', miningReward |-> miningReward,
                              chainLength |-> Len(chain')]]_vars

\* C25: what loadBlockchain returns once a save has returned is the
\* Blockchain of one single instant of that save, also when transactions,
\* mined blocks, blocks of peers and replacements came between its awaits.
C25_SavedSnapshotConsistent ==
  [][(lastOp'.op = "saveBlockchain" /\ lastOp'.ok) =>
       loadBlockchain(stored') \in seen]_vars

\* C26: adjustDifficulty(T) moves the difficulty by one step at most: up
\* when the last two blocks are less than T/2 apart, down when they are more
\* than 2T apart and the difficulty is above 1, not at all otherwise or
\* while the chain holds the genesis block only; the difficulty stays >= 1.
C26_DifficultyOneStep ==
  [][\A T \in ExpectedBlockTimes :
       adjustDifficulty(T) =>
         LET n == Len(chain)
             delta == chain[n].timestamp - chain[n - 1].timestamp
         IN  /\ n = 1 => difficulty' = difficulty
             /\ n > 1 =>
                  /\ 2 * delta < T => difficulty' = difficulty + 1
                  /\ (delta > 2 * T /\ difficulty > 1) => difficulty' = difficulty - 1
                  /\ ~(2 * delta < T) /\ ~(delta > 2 * T /\ difficulty > 1) =>
                       difficulty' = difficulty
             /\ difficulty >= 1 => difficulty' >= 1]_vars

\* C26 witness: adjustDifficulty ran after a slow block and the difficulty
\* is at its floor
C26_Witness ==
  /\ lastOp.op = "adjustDifficulty"
  /\ Len(chain) >= 2
  /\ chain[Len(chain)].timestamp - chain[Len(chain) - 1].timestamp
       > 2 * DefaultExpectedBlockTime
  /\ difficulty = 1

\* C27: isValidChain ends with true or false for every list it is given,
\* the empty list and lists with a block that lacks its hash included, and
\* it returns true only for a list whose first block has index 0 and a hash
\* that starts with 0.
C27_ValidateChainNeverThrows ==
  lastOp.op = "isValidChain" =>
    /\ lastOp.ret \in {"true", "false"}
    /\ lastOp.ret = "true" =>
         /\ lastOp.arg[1].index = 0
         /\ MeetsDifficulty(lastOp.arg[1].hash, 1)

\* C28: in every reachable state the chain is not empty and its first
\* block is a genesis block: index 0 and a hash that starts with 0.
C28_ChainStartsAtGenesis ==
  /\ Len(chain) >= 1
  /\ chain[1].index = 0
  /\ MeetsDifficulty(chain[1].hash, 1)

\* C29: signTransaction on a transfer that carries a signature fails with
\* an error and leaves the signature as it is; on a reward transaction it
\* returns without error and leaves the signature absent, whatever the key.
C29_SignedOnceRewardNever ==
  [][\A i \in 1..Len(pendingTransactions), signingKey \in SigningKeys :
       (lastOp'.op = "signTransaction" /\ signTransaction(i, signingKey)) =>
         LET tx == pendingTransactions[i]
         IN  /\ (tx.type # "reward" /\ tx.signature # NULL) =>
                  /\ ~lastOp'.ok
                  /\ pendingTransactions'[i].signature = tx.signature
             /\ tx.type = "reward" =>
                  /\ lastOp'.ok
                  /\ tx.signature = NULL
                  /\ pendingTransactions'[i].signature = NULL]_vars

\* C29 witness: a second signTransaction on a signed transfer has failed
C29_Witness ==
  /\ lastOp.op = "signTransaction"
  /\ ~lastOp.ok
  /\ pendingTransactions[lastOp.arg[1]].type = "regular"
  /\ pendingTransactions[lastOp.arg[1]].signature # NULL

\* C30: signTransaction on a transfer with a private key whose address is
\* not the fromAddress of the transfer fails with an error.
C30_ForeignKeyRefused ==
  [][\A i \in 1..Len(pendingTransactions), signingKey \in ValidKeys :
       (/\ lastOp'.op = "signTransaction"
        /\ signTransaction(i, signingKey)
        /\ pendingTransactions[i].type # "reward"
        /\ AddressOfKey(signingKey) # pendingTransactions[i].fromAddress)
         => ~lastOp'.ok]_vars

\* the transfer tx carries a signature made by key k over the fields it has now
SignedBy(tx, k) == tx.signature = sign(TransactionHash(tx), k)

\* C31: a transfer signed with a key verifies under the public key of that
\* key; a transfer whose fields are no longer those that were signed makes
\* isValid return false; a reward transaction without signature is valid.
C31_SignatureCommitsToFields ==
  lastOp.op = "isValid" =>
    LET tx == lastOp.arg[1]
        publicKey == lastOp.arg[2]
    IN  /\ (tx.type = "reward" /\ tx.signature = NULL) => lastOp.ret = "true"
        /\ \A k \in ValidKeys :
             (tx.type = "regular" /\ tx.fromAddress # NULL /\ SignedBy(tx, k)
              /\ publicKey = PublicKeyOf(k)) => lastOp.ret = "true"
        /\ (tx.signature # NULL /\ \A k \in ValidKeys : ~SignedBy(tx, k))
             => lastOp.ret = "false"

\* C32: fromJSON(toJSON(x)) has the field values of x, for every block of
\* the chain, the genesis block included, and for every transaction of the
\* chain and of the mempool, whatever uuid and clock value the constructor
\* draws on the way back.
C32_JSONRoundTrip ==
  \A uuid \in {nextId, PeerTxId}, ts \in {now, MaxTime + 1} :
    /\ \A i \in 1..Len(chain) :
         BlockFromJSON(BlockToJSON(chain[i]), uuid, ts) = chain[i]
    /\ \A i \in 1..Len(pendingTransactions) :
         TransactionFromJSON(TransactionToJSON(pendingTransactions[i]), uuid, ts)
           = pendingTransactions[i]

\* C32 witness: the chain holds a mined block with a signed transfer
C32_Witness ==
  /\ Len(chain) >= 2
  /\ \E j \in 1..Len(chain[Len(chain)].transactions) :
       chain[Len(chain)].transactions[j].signature # NULL

\* the state of the Blockchain as loadBlockchain hands it back
Snapshot(c, pending, d) ==
  [chain |-> c, pendingTransactions |-> pending, difficulty |-> d]

\* C33: when a saveBlockchain ends and nothing was mutated since it began,
\* loadBlockchain returns the blocks, the pending transactions and the
\* difficulty of the Blockchain, also when the database holds more blocks
\* from an earlier save; a database without metadata loads as a fresh chain
\* of one genesis block with an empty mempool.
C33_LoadReturnsSaved ==
  [][/\ (lastOp'.op = "saveBlockchain" /\ lastOp'.ok /\ Cardinality(seen) = 1)
        => /\ loadBlockchain(stored') =
                Snapshot(chain', pendingTransactions', difficulty')
           /\ stored'.metadata.miningReward = miningReward
     /\ "metadata" \notin stored.keys
        => /\ Len(loadBlockchain(stored).chain) = 1
           /\ loadBlockchain(stored).chain[1].index = 0
           /\ loadBlockchain(stored).pendingTransactions = <<>>]_vars

\* C33 witness: a save has ended without a mutation since it began, and it
\* left fewer blocks than the database holds
C33_Witness ==
  /\ lastOp.op = "saveBlockchain"
  /\ lastOp.ok
  /\ stored.metadata.chainLength < Len(stored.blocks)
  /\ loadBlockchain(stored) = Snapshot(chain, pendingTransactions, difficulty)

\* C34: when the list of transaction ids of a block that passes isValid is
\* changed and neither merkleRoot nor hash is recomputed, isValid returns
\* false for the block.
C34_ListChangeDetected ==
  [][lastOp'.op = "tamperTransactions" =>
       LET i == lastOp'.arg[1]
       IN  isValid(chain[i]) => ~isValid(chain'[i])]_vars

\* C34 witness: a transaction was pushed on the list of a mined block that
\* held a transfer and a reward, and the block fails isValid
C34_Witness ==
  /\ lastOp.op = "tamperTransactions"
  /\ chain[lastOp.arg[1]].index > 0
  /\ Len(chain[lastOp.arg[1]].transactions) = 3
  /\ MeetsDifficulty(chain[lastOp.arg[1]].hash, chain[lastOp.arg[1]].difficulty)
  /\ chain[lastOp.arg[1]].hash = calculateHash(chain[lastOp.arg[1]])
  /\ ~isValid(chain[lastOp.arg[1]])

\* C35: the number of blocks of the chain never decreases, and an answer or
\* a candidate that has no more blocks than the chain never changes it.
C35_ChainNeverShrinks ==
  [][/\ Len(chain') >= Len(chain)
     /\ (lastOp'.op = "replaceChain" /\ Len(lastOp'.arg) <= Len(chain))
          => chain' = chain
     /\ (lastOp'.op = "handleBlockchainResponse" /\ chain' # chain)
          => Len(chain') > Len(chain)]_vars

\* C36: no transaction id is confirmed twice, in two blocks or in one, and
\* no step admits to the mempool a transaction whose id is confirmed.
C36_ConfirmedOnce ==
  [][/\ \A i1, i2 \in 1..Len(chain') :
          \A j1 \in 1..Len(chain'[i1].transactions) :
            \A j2 \in 1..Len(chain'[i2].transactions) :
              chain'[i1].transactions[j1].id = chain'[i2].transactions[j2].id
                => (i1 = i2 /\ j1 = j2)
     /\ Len(pendingTransactions') > Len(pendingTransactions)
          => pendingTransactions'[Len(pendingTransactions')].id
               \notin {tx.id : tx \in Echoed}]_vars

\* C37: after any sequence of addTransaction and minePendingTransactions
\* no address has a negative confirmed balance.
C37_NoNegativeBalance ==
  \A address \in {"A", "B"} : getBalanceOfAddress(address) >= 0

\* C38: every block appended by mining holds exactly one reward
\* transaction, of amount miningReward, and no step puts a reward-kind or
\* sender-less transaction on the mempool.
C38_OnlyRewardMints ==
  [][/\ lastOp'.op = "minePendingTransactions"
          => LET txs == chain'[Len(chain')].transactions
                 rewards == {j \in 1..Len(txs) :
                               txs[j].type = "reward" \/ txs[j].fromAddress = NULL}
             IN  /\ Cardinality(rewards) = 1
                 /\ \A j \in rewards : txs[j].amount = miningReward
     /\ \A i \in 1..Len(pendingTransactions') :
          /\ pendingTransactions'[i].type # "reward"
          /\ pendingTransactions'[i].fromAddress # NULL]_vars

\* C39: right after replaceChain returns true, or after a ChainResponse
\* has replaced the local chain, isChainValid() returns true.
C39_AdoptedChainValid ==
  [][(\/ lastOp'.op = "replaceChain" /\ lastOp'.ok
      \/ lastOp'.op = "handleBlockchainResponse" /\ chain' # chain)
       => isChainValidOf(chain')]_vars

\* C40: when a peer answers with one block that links to the local tip,
\* the chain with that block appended is checked by isChainValid: when
\* the check fails the chain keeps its content, nothing is broadcast and
\* no event is emitted; when it passes and the block is the next one by
\* index, the chain is the old chain with that block as its tip.
C40_FastPathRollback ==
  [][\A k \in Kinds :
       LET c == PeerResponse(PeerChain(Len(chain), <<k>>, "ok"), "latest")
           b == BlockFromJSON(c[1], nextId, now)
       IN  (/\ lastOp'.op = "handleBlockchainResponse"
            /\ handleBlockchainResponse(c)
            /\ b.previousHash = getLatestBlock.hash
            /\ b.index > getLatestBlock.index)
             => IF isChainValidOf(Append(chain, b))
                THEN b.index = getLatestBlock.index + 1
                       => /\ chain' = Append(chain, b)
                          /\ chain'[Len(chain')] = b
                ELSE /\ chain' = chain
                     /\ lastOp'.events = <<>>
                     /\ lastOp'.sent = <<>>]_vars

\* a block with a forged hash was answered to a node that holds mined
\* blocks, and was rolled back
C40_Witness ==
  /\ lastOp.op = "handleBlockchainResponse"
  /\ lastOp.log = "rolled back"
  /\ lastOp.events = <<>>
  /\ Len(chain) > 1

\* the last step went through an append path
AppendPath(op) ==
  \/ op.op \in {"minePendingTransactions", "handleNewBlock"}
  \/ op.op = "handleBlockchainResponse" /\ op.log \in {"added", "rolled back"}

\* C9: the append paths put a block on the chain only when it extends the
\* tip by one index, names the tip's hash, carries the digest of its
\* fields, meets its difficulty and has the Merkle root of its
\* transactions; otherwise the chain stays as it was.
C9_AppendOnlyValid ==
  [][AppendPath(lastOp') =>
       \/ chain' = chain
       \/ /\ Len(chain') = Len(chain) + 1
          /\ SubSeq(chain', 1, Len(chain)) = chain
          /\ LET block == chain'[Len(chain')]
                 tip == chain[Len(chain)]
             IN  /\ block.index = tip.index + 1
                 /\ block.previousHash = tip.hash
                 /\ block.hash = calculateHash(block)
                 /\ LeadingZeros(block.hash, block.difficulty)
                 /\ block.merkleRoot = calculateMerkleRoot(block.transactions)]_vars

\* C10: after a block has been appended, no pending transaction has the
\* id of one of its transactions, and an event announced the block.
C10_AppendClearsMempool ==
  (AppendPath(lastOp) /\ lastOp.ok) =>
    /\ \A i \in 1..Len(pendingTransactions) :
         \A j \in 1..Len(chain[Len(chain)].transactions) :
           pendingTransactions[i].id # chain[Len(chain)].transactions[j].id
    /\ lastOp.events \in {<<"blockMined">>, <<"blockchainUpdated">>}

====
